---- MODULE Spec2Model ----
(***************************************************************************)
(* Model of the paragraph classification and filtering engine of          *)
(* promptcleaner: src/app.py (strict, English-only batch variant) and     *)
(* src/streamlit_app.py (ASCII-ratio variant with a relaxed second pass). *)
(*                                                                         *)
(* A text is a sequence of Unicode code points (Python str), so that      *)
(* ord(ch) < 128, str.isspace, str.lower and the regular expressions of   *)
(* the source are modelled by what they do on code points.                *)
(***************************************************************************)
EXTENDS Integers, Sequences, FiniteSets, TLC

VARIABLES
    \* ---- whitespace normalisation (normalize_ws / re.sub + strip) ----
    nVariant,      \* "app" or "streamlit": which normaliser is applied
    nIn,           \* raw paragraph text
    nOut1,         \* normalize(nIn)
    nOut2,         \* normalize(normalize(nIn))
    nPc,           \* "off", or "raw" -> "once" -> "twice"
    \* ---- keyword counting inside looks_like_prompt ----
    kVariant,      \* "app" or "streamlit"
    kKeywords,     \* the configured keyword list
    kText,         \* the paragraph text
    kHits,         \* hits (app.py) / kcount (streamlit_app.py)
    kPc,           \* "off", or "ready" -> "counted"
    \* ---- is_english_heuristic ----
    hText,         \* the paragraph text
    hResult,       \* the returned bool
    hPc,           \* "off", or "ready" -> "returned"
    \* ---- filter_prompts over one document ----
    variant,               \* "off", "app" (app.py) or "streamlit" (streamlit_app.py)
    LANGDETECT_AVAILABLE,  \* app.py: whether "from langdetect import detect" worked
    paragraphs,            \* the extracted paragraphs (normalised, non-empty)
    cfg,                   \* the arguments of filter_prompts
    pc,                    \* "primary", "relaxed", "done" or "raised"
    idx,                   \* position of the running list comprehension
    prompts,               \* the list being built / returned
    primary,               \* value of prompts after the first comprehension
    relaxed,               \* the branch of "if relax_if_empty and len(prompts) == 0" was entered
    verdicts,              \* values returned by looks_like_prompt, per paragraph
    detected               \* what langdetect's detect() did, per paragraph ("none": not called)

nvars == <<nVariant, nIn, nOut1, nOut2, nPc>>
kvars == <<kVariant, kKeywords, kText, kHits, kPc>>
hvars == <<hText, hResult, hPc>>

fvars == <<variant, LANGDETECT_AVAILABLE, paragraphs, cfg, pc, idx, prompts,
           primary, relaxed, verdicts, detected>>

vars == <<nvars, kvars, hvars, fvars>>

\* the parts of the state a specification does not use stay switched off
NormOff == nVariant = "app" /\ nIn = <<>> /\ nOut1 = <<>> /\ nOut2 = <<>> /\ nPc = "off"
KwOff == kVariant = "app" /\ kKeywords = <<>> /\ kText = <<>> /\ kHits = 0 /\ kPc = "off"
HeurOff == hText = <<>> /\ hResult = FALSE /\ hPc = "off"
FilterOff ==
    /\ variant = "off" /\ LANGDETECT_AVAILABLE = FALSE /\ paragraphs = <<>>
    /\ cfg = <<>> /\ pc = "off" /\ idx = 0 /\ prompts = <<>> /\ primary = <<>>
    /\ relaxed = FALSE /\ verdicts = <<>> /\ detected = <<>>

(***************************************************************************)
(* Characters                                                              *)
(***************************************************************************)
SP == 32

\* str.isspace(): the code points Python treats as whitespace; str.split(),
\* str.strip() and the regex class \s (str patterns) all use this set.
WHITESPACE ==
    {9, 10, 11, 12, 13, 28, 29, 30, 31, 32, 133, 160, 5760} \cup (8192..8202)
        \cup {8232, 8233, 8239, 8287, 12288}

IsSpace(c) == c \in WHITESPACE

(***************************************************************************)
(* app.py normalize_ws: " ".join((s or "").split()).strip()                *)
(***************************************************************************)
RECURSIVE SkipSpace(_)
SkipSpace(s) ==
    IF s = <<>> THEN <<>>
    ELSE IF IsSpace(Head(s)) THEN SkipSpace(Tail(s)) ELSE s

RECURSIVE TakeWord(_)
TakeWord(s) ==
    IF s = <<>> THEN <<>>
    ELSE IF IsSpace(Head(s)) THEN <<>> ELSE <<Head(s)>> \o TakeWord(Tail(s))

\* str.split() with no argument: the maximal runs of non-whitespace
RECURSIVE Split(_)
Split(s) ==
    LET r == SkipSpace(s) IN
    IF r = <<>> THEN <<>>
    ELSE LET w == TakeWord(r) IN
         <<w>> \o Split(SubSeq(r, Len(w) + 1, Len(r)))

\* " ".join(words)
RECURSIVE JoinSp(_)
JoinSp(ws) ==
    IF ws = <<>> THEN <<>>
    ELSE IF Len(ws) = 1 THEN ws[1]
    ELSE ws[1] \o <<SP>> \o JoinSp(Tail(ws))

\* str.strip(): drop leading and trailing whitespace
RECURSIVE RStrip(_)
RStrip(s) ==
    IF s = <<>> THEN <<>>
    ELSE IF IsSpace(s[Len(s)]) THEN RStrip(SubSeq(s, 1, Len(s) - 1)) ELSE s

Strip(s) == RStrip(SkipSpace(s))

normalize_ws(s) == Strip(JoinSp(Split(s)))

(***************************************************************************)
(* streamlit_app.py: re.sub(r"\s+", " ", para_text).strip()                *)
(***************************************************************************)
\* one left-to-right pass; each maximal whitespace run becomes one space
RECURSIVE ReSubWs(_)
ReSubWs(s) ==
    IF s = <<>> THEN <<>>
    ELSE IF IsSpace(Head(s)) THEN <<SP>> \o ReSubWs(SkipSpace(s))
    ELSE <<Head(s)>> \o ReSubWs(Tail(s))

\* the substitution without the trailing .strip()
normalize_re_NoStrip(s) == ReSubWs(s)

normalize_re(s) == Strip(ReSubWs(s))

Normalize(v, s) == IF v = "app" THEN normalize_ws(s) ELSE normalize_re(s)

(***************************************************************************)
(* Specification SpecNorm: a raw paragraph is normalised, then the result  *)
(* is normalised again.                                                    *)
(***************************************************************************)
MaxRawLen == 4

\* letter a, space, newline, no-break space
NormAlphabet == {97, 32, 10, 160}

RawTexts == UNION {[1..n -> NormAlphabet] : n \in 0..MaxRawLen}

NormInit ==
    /\ nVariant \in {"app", "streamlit"}
    /\ nIn \in RawTexts
    /\ nOut1 = <<>>
    /\ nOut2 = <<>>
    /\ nPc = "raw"
    /\ KwOff /\ HeurOff /\ FilterOff

NormalizeOnce ==
    /\ nPc = "raw"
    /\ nOut1' = Normalize(nVariant, nIn)
    /\ nPc' = "once"
    /\ UNCHANGED <<nVariant, nIn, nOut2, kvars, hvars, fvars>>

NormalizeAgain ==
    /\ nPc = "once"
    /\ nOut2' = Normalize(nVariant, nOut1)
    /\ nPc' = "twice"
    /\ UNCHANGED <<nVariant, nIn, nOut1, kvars, hvars, fvars>>

NormNext == NormalizeOnce \/ NormalizeAgain

SpecNorm == NormInit /\ [][NormNext]_vars

\* no leading or trailing whitespace and no two adjacent whitespace characters
Canonical(s) ==
    /\ s # <<>> => ~IsSpace(s[1]) /\ ~IsSpace(s[Len(s)])
    /\ \A i \in 1..(Len(s) - 1) : ~(IsSpace(s[i]) /\ IsSpace(s[i + 1]))

\* C9: normalize is idempotent and its result has no outer whitespace and no
\* run of two or more whitespace characters, for both normalisers.
C9_NormalizeIdempotent ==
    /\ nPc \in {"once", "twice"} => Canonical(nOut1)
    /\ nPc = "twice" => nOut2 = nOut1

C9_Witness ==
    /\ nPc = "twice"
    /\ Len(nIn) = MaxRawLen
    /\ nOut1 # nIn
    /\ Len(nOut1) >= 3

(***************************************************************************)
(* Text measurements shared by both variants                               *)
(***************************************************************************)
Rep(c, n) == [i \in 1..n |-> c]

Range(f) == {f[i] : i \in DOMAIN f}

Min(a, b) == IF a <= b THEN a ELSE b
Max(a, b) == IF a >= b THEN a ELSE b

\* sum(1 for ch in s if ord(ch) < 128)
AsciiCount(s) == Cardinality({i \in 1..Len(s) : s[i] < 128})

\* str.lower() per code point: ASCII and Latin-1 capitals, and the Kelvin sign
\* (the only non-ASCII code point other than U+0130 whose lower case is ASCII).
\* U+0130, whose lower case is two code points, is not in any alphabet used.
Lower(c) ==
    IF c \in 65..90 THEN c + 32
    ELSE IF c \in (192..222) \ {215} THEN c + 32
    ELSE IF c = 8490 THEN 107
    ELSE c

LowerText(s) == [i \in 1..Len(s) |-> Lower(s[i])]

\* Python "needle in hay" (the empty needle is in every text)
Contains(needle, hay) ==
    \E i \in 1..(Len(hay) - Len(needle) + 1) :
        \A j \in 1..Len(needle) : hay[i + j - 1] = needle[j]

\* app.py ascii_ratio(s) >= pct/100, in exact arithmetic (0.0 for the empty
\* text)
AsciiRatioAtLeast(s, pct) ==
    IF s = <<>> THEN 0 >= pct ELSE AsciiCount(s) * 100 >= pct * Len(s)

(***************************************************************************)
(* Keyword counting                                                        *)
(***************************************************************************)
\* app.py: sum(1 for k in keywords if k and k.lower() in text.lower())
KeywordHitsApp(keywords, text) ==
    Cardinality({i \in 1..Len(keywords) :
        /\ keywords[i] # <<>>
        /\ Contains(LowerText(keywords[i]), LowerText(text))})

\* streamlit_app.py:
\*   sum(1 for k in keywords if k and k.lower().strip() in text.lower())
KeywordHitsSt(keywords, text) ==
    Cardinality({i \in 1..Len(keywords) :
        /\ keywords[i] # <<>>
        /\ Contains(Strip(LowerText(keywords[i])), LowerText(text))})

KeywordHits(v, keywords, text) ==
    IF v = "app" THEN KeywordHitsApp(keywords, text)
    ELSE KeywordHitsSt(keywords, text)

(***************************************************************************)
(* Specification SpecKw: the keyword count of one text under one keyword   *)
(* list, as the UI builds it (stripped, non-empty entries, duplicates      *)
(* kept: [k.strip() for k in kw_input.split(",") if k.strip()]).           *)
(***************************************************************************)
MaxKwTextLen == 3
MaxKeywords == 2

\* a, A, b
KwAlphabet == {97, 65, 98}

KwTexts == UNION {[1..n -> KwAlphabet] : n \in 0..MaxKwTextLen}

\* "a", "A", "ab", "b"
KwPool == {<<97>>, <<65>>, <<97, 98>>, <<98>>}

KwLists == UNION {[1..n -> KwPool] : n \in 0..MaxKeywords}

KwInit ==
    /\ kVariant \in {"app", "streamlit"}
    /\ kKeywords \in KwLists
    /\ kText \in KwTexts
    /\ kHits = 0
    /\ kPc = "ready"
    /\ NormOff /\ HeurOff /\ FilterOff

CountKeywords ==
    /\ kPc = "ready"
    /\ kHits' = KeywordHits(kVariant, kKeywords, kText)
    /\ kPc' = "counted"
    /\ UNCHANGED <<kVariant, kKeywords, kText, nvars, hvars, fvars>>

KwNext == CountKeywords

SpecKw == KwInit /\ [][KwNext]_vars

\* the keyword occurs in the text as a substring, ignoring letter case
OccursIgnoringCase(k, text) ==
    \E i \in 0..(Len(text) - Len(k)) :
        \A j \in 1..Len(k) : Lower(text[i + j]) = Lower(k[j])

\* C7: the hit count equals the number of distinct configured keywords that
\* occur in the text as a substring ignoring case (so it never exceeds the
\* number of distinct keywords).
C7_HitsCountDistinctKeywords ==
    kPc = "counted" =>
        /\ kHits = Cardinality({k \in Range(kKeywords) : OccursIgnoringCase(k, kText)})
        /\ kHits <= Cardinality(Range(kKeywords))

(***************************************************************************)
(* app.py is_english_heuristic                                             *)
(***************************************************************************)
\* the character class of VN_DIACRITIC_REGEX
VN_DIACRITICS ==
    (192..195) \cup (200..202) \cup {204, 205} \cup (210..213) \cup {217, 218, 221}
        \cup (224..227) \cup (232..234) \cup {236, 237} \cup (242..245)
        \cup {249, 250, 253, 258, 259, 272, 273, 296, 297, 360, 361, 416, 417, 431, 432}
        \cup (7840..7929)

EN_STOPWORDS_SAMPLE ==
    {
      <<116, 104, 101>>,   \* the
      <<97, 110, 100>>,   \* and
      <<116, 111>>,   \* to
      <<111, 102>>,   \* of
      <<97>>,   \* a
      <<105, 110>>,   \* in
      <<105, 115>>,   \* is
      <<116, 104, 97, 116>>,   \* that
      <<102, 111, 114>>,   \* for
      <<111, 110>>,   \* on
      <<119, 105, 116, 104>>,   \* with
      <<97, 115>>,   \* as
      <<98, 121>>,   \* by
      <<102, 114, 111, 109>>,   \* from
      <<116, 104, 105, 115>>,   \* this
      <<98, 101>>,   \* be
      <<97, 114, 101>>,   \* are
      <<97, 116>>,   \* at
      <<111, 114>>,   \* or
      <<105, 116>>,   \* it
      <<97, 110>>,   \* an
      <<105, 110, 116, 111>>,   \* into
      <<111, 118, 101, 114>>,   \* over
      <<117, 110, 100, 101, 114>>,   \* under
      <<97, 98, 111, 117, 116>>,   \* about
      <<99, 97, 110>>,   \* can
      <<115, 99, 101, 110, 101>>,   \* scene
      <<99, 104, 97, 114, 97, 99, 116, 101, 114>>,   \* character
      <<100, 105, 97, 108, 111, 103, 117, 101>>,   \* dialogue
      <<111, 98, 106, 101, 99, 116, 105, 118, 101>>,   \* objective
      <<101, 110, 118, 105, 114, 111, 110, 109, 101, 110, 116>>,   \* environment
      <<99, 97, 109, 101, 114, 97>>,   \* camera
      <<108, 105, 103, 104, 116, 105, 110, 103>>,   \* lighting
      <<116, 114, 97, 110, 115, 105, 116, 105, 111, 110>>,   \* transition
      <<97, 117, 100, 105, 111>>,   \* audio
      <<118, 102, 120>>   \* vfx
    }

\* VN_DIACRITIC_REGEX.search(text)
HasVnDiacritic(s) == \E i \in 1..Len(s) : s[i] \in VN_DIACRITICS

\* the character class [A-Za-z]
IsAlpha(c) == c \in 65..90 \/ c \in 97..122

\* re.findall(r"[A-Za-z]+", s): the maximal runs of letters, by start position
TokenStarts(s) ==
    {i \in 1..Len(s) : IsAlpha(s[i]) /\ (i = 1 \/ ~IsAlpha(s[i - 1]))}

TokenEnd(s, i) ==
    CHOOSE j \in i..Len(s) :
        /\ \A k \in i..j : IsAlpha(s[k])
        /\ j = Len(s) \/ ~IsAlpha(s[j + 1])

\* sum(1 for t in tokens if t in EN_STOPWORDS_SAMPLE), tokens of text.lower()
StopwordHits(s) ==
    LET low == LowerText(s) IN
    Cardinality({i \in TokenStarts(low) :
        SubSeq(low, i, TokenEnd(low, i)) \in EN_STOPWORDS_SAMPLE})

\* the heuristic without its first test (the Vietnamese diacritic search)
is_english_heuristic_NoDiacritic(text) ==
    IF ~AsciiRatioAtLeast(text, 85) THEN FALSE
    ELSE IF TokenStarts(LowerText(text)) = {} THEN FALSE
    ELSE StopwordHits(text) >= 8

is_english_heuristic(text) ==
    IF HasVnDiacritic(text) THEN FALSE
    ELSE IF ~AsciiRatioAtLeast(text, 85) THEN FALSE
    ELSE IF TokenStarts(LowerText(text)) = {} THEN FALSE
    ELSE StopwordHits(text) >= 8

(***************************************************************************)
(* Specification SpecHeur: is_english_heuristic on texts made of stopword  *)
(* tokens, capitalised stopwords, other words, Vietnamese letters and      *)
(* other non-ASCII letters.                                                *)
(***************************************************************************)
MaxStopTokens == 9
MaxNonAscii == 7

\* "the ", "The ", "zz", e-acute (Vietnamese set), n-tilde (outside the set)
HeurText(k, u, d, n) ==
    LET rep(w, m) == [i \in 1..(m * Len(w)) |-> w[((i - 1) % Len(w)) + 1]] IN
    rep(<<116, 104, 101, 32>>, k) \o rep(<<84, 104, 101, 32>>, u)
        \o Rep(233, d) \o Rep(241, n) \o <<122, 122>>

HeurTexts ==
    {HeurText(k, u, d, n) : k \in 0..MaxStopTokens, u \in 0..1, d \in 0..1,
                            n \in 0..MaxNonAscii}
        \cup {<<>>, <<49, 50, 51>>}

HeurInit ==
    /\ hText \in HeurTexts
    /\ hResult = FALSE
    /\ hPc = "ready"
    /\ NormOff /\ KwOff /\ FilterOff

CheckEnglishHeuristic ==
    /\ hPc = "ready"
    /\ hResult' = is_english_heuristic(hText)
    /\ hPc' = "returned"
    /\ UNCHANGED <<hText, nvars, kvars, fvars>>

HeurNext == CheckEnglishHeuristic

SpecHeur == HeurInit /\ [][HeurNext]_vars

\* C10: the heuristic English check returns true only if the text has no
\* Vietnamese diacritic, its ASCII ratio is at least 0.85 and at least 8 of
\* its lowercased alphabetic tokens are in the stopword set; every text with
\* a diacritic is rejected.
C10_HeuristicOnlyIfAllThree ==
    hPc = "returned" =>
        /\ hResult =>
            /\ \A i \in 1..Len(hText) : hText[i] \notin VN_DIACRITICS
            /\ AsciiCount(hText) * 100 >= 85 * Len(hText)
            /\ StopwordHits(hText) >= 8
        /\ (\E i \in 1..Len(hText) : hText[i] \in VN_DIACRITICS) => ~hResult

C10_Witness ==
    /\ hPc = "returned"
    /\ hResult
    /\ AsciiCount(hText) * 100 = 85 * Len(hText)
    /\ StopwordHits(hText) = 8

(***************************************************************************)
(* app.py: is_english_langdetect, is_english, looks_like_prompt            *)
(***************************************************************************)
\* a call either returns a bool or lets an exception escape
Ret(b) == [raised |-> FALSE, value |-> b]
Raise == [raised |-> TRUE, value |-> FALSE]

\* what detect(text) can do: identify English, identify another language,
\* or raise (LangDetectException)
DetectOutcomes == {"en", "other", "raise"}

\* the detector call without its try/except: the exception escapes
is_english_langdetect_Propagates(text, d) ==
    IF ~LANGDETECT_AVAILABLE THEN Ret(FALSE)
    ELSE IF d = "raise" THEN Raise
    ELSE Ret(d = "en")

\* d: the outcome of detect(text) in this call
is_english_langdetect(text, d) ==
    IF ~LANGDETECT_AVAILABLE THEN Ret(FALSE)
    ELSE IF d = "raise" THEN Ret(FALSE)     \* except Exception: return False
    ELSE Ret(d = "en")

is_english(text, strict, d) ==
    IF strict /\ LANGDETECT_AVAILABLE THEN is_english_langdetect(text, d)
    ELSE Ret(is_english_heuristic(text))

looks_like_prompt_app(text, min_len, require_english, strict_lang, keywords, min_keyword_hits, d) ==
    IF Len(text) < min_len THEN Ret(FALSE)
    ELSE LET e == IF require_english THEN is_english(text, strict_lang, d)
                  ELSE Ret(TRUE) IN
         IF e.raised THEN Raise
         ELSE IF require_english /\ ~e.value THEN Ret(FALSE)
         ELSE IF /\ min_keyword_hits > 0
                 /\ keywords # <<>>
                 /\ KeywordHitsApp(keywords, text) < min_keyword_hits
              THEN Ret(FALSE)
         ELSE Ret(TRUE)

\* detect() is reached in this call of looks_like_prompt
DetectorCalled(text, c) ==
    /\ Len(text) >= c.min_len
    /\ c.require_english
    /\ c.strict_lang
    /\ LANGDETECT_AVAILABLE

(***************************************************************************)
(* streamlit_app.py: looks_like_prompt and the relaxed pass                *)
(* min_ascii_ratio is held in percent (the slider moves in steps of 0.05), *)
(* and ratio >= threshold is compared in exact arithmetic.                 *)
(***************************************************************************)
\* len(re.findall(r"[.!?]", text))
PunctCount(text) == Cardinality({i \in 1..Len(text) : text[i] \in {46, 33, 63}})

\* (sum(1 for ch in t if ord(ch) < 128) / max(1, len(t))) >= pct / 100
AsciiRatioSt(text, pct) == AsciiCount(text) * 100 >= pct * Max(1, Len(text))

\* the classifier without its early return on short texts
looks_like_prompt_st_NoLengthCheck(text, min_len, min_ascii_ratio, keywords, min_keyword_hits, max_puncts) ==
    /\ AsciiRatioSt(text, min_ascii_ratio)
    /\ KeywordHitsSt(keywords, text) >= min_keyword_hits
    /\ PunctCount(text) <= max_puncts

looks_like_prompt_st(text, min_len, min_ascii_ratio, keywords, min_keyword_hits, max_puncts) ==
    IF Len(text) < min_len THEN FALSE
    ELSE /\ AsciiRatioSt(text, min_ascii_ratio)
         /\ KeywordHitsSt(keywords, text) >= min_keyword_hits
         /\ PunctCount(text) <= max_puncts

\* Python None for the keywords argument
None == <<-1>>

DefaultKeywordsSt ==
    <<
      <<111, 98, 106, 101, 99, 116, 105, 118, 101>>,   \* objective
      <<101, 110, 118, 105, 114, 111, 110, 109, 101, 110, 116>>,   \* environment
      <<99, 104, 97, 114, 97, 99, 116, 101, 114, 115>>,   \* characters
      <<112, 114, 111, 112, 115>>,   \* props
      <<100, 105, 97, 108, 111, 103, 117, 101>>,   \* dialogue
      <<116, 101, 97, 109, 119, 111, 114, 107>>,   \* teamwork
      <<99, 97, 109, 101, 114, 97>>,   \* camera
      <<108, 105, 103, 104, 116, 105, 110, 103>>,   \* lighting
      <<86, 70, 88>>,   \* VFX
      <<65, 117, 100, 105, 111>>,   \* Audio
      <<82, 104, 121, 116, 104, 109>>,   \* Rhythm
      <<84, 114, 97, 110, 115, 105, 116, 105, 111, 110>>,   \* Transition
      <<73, 110, 116, 101, 114, 97, 99, 116, 105, 118, 101, 32, 67, 84, 65>>   \* Interactive CTA
    >>

\* if keywords is None: keywords = [...]
EffectiveKeywords(keywords) ==
    IF keywords = None THEN DefaultKeywordsSt ELSE keywords

\* max(300, int(min_len * 0.75)); min_len is a positive int and 0.75 is exact
\* in binary floating point, so int() is the floor of 3*min_len/4
RelaxedMinLen(min_len) == Max(300, (min_len * 3) \div 4)

\* the relaxed pass keeping the configured ASCII threshold
RelaxedMinAscii_Unrelaxed(min_ascii_ratio) == min_ascii_ratio

\* min(min_ascii_ratio, 0.7), in percent
RelaxedMinAscii(min_ascii_ratio) == Min(min_ascii_ratio, 70)

\* the condition of the second list comprehension
RelaxedKeep(p, min_len, min_ascii_ratio) ==
    /\ Len(p) >= RelaxedMinLen(min_len)
    /\ AsciiRatioSt(p, RelaxedMinAscii(min_ascii_ratio))

\* the fallback test without the emptiness condition
FallbackTaken_IgnoresResult(relax_if_empty, ps) == relax_if_empty

\* if relax_if_empty and len(prompts) == 0:
FallbackTaken(relax_if_empty, ps) == relax_if_empty /\ Len(ps) = 0

\* building the list by inserting at the front
Collect_Prepend(acc, p) == <<p>> \o acc

\* a list comprehension keeps p: it is appended to the list built so far
Collect(acc, p) == Append(acc, p)

(***************************************************************************)
(* Specification Spec: one call of filter_prompts on the paragraphs of a   *)
(* document, in either variant.                                            *)
(***************************************************************************)
MaxParas == 2

\* "the " x n
The(n) == [i \in 1..(4 * n) |-> <<116, 104, 101, 32>>[((i - 1) % 4) + 1]]

\* "camera lighting objective "
Kw3 ==
    <<99, 97, 109, 101, 114, 97, 32>> \o <<108, 105, 103, 104, 116, 105, 110, 103, 32>>
        \o <<111, 98, 106, 101, 99, 116, 105, 118, 101, 32>>

\* words, then filler digits "0" up to length total, of which the last
\* nonAscii are n-tilde and the last dots before those are "."
Para(words, total, nonAscii, dots) ==
    words \o Rep(48, total - Len(words) - nonAscii - dots) \o Rep(46, dots)
        \o Rep(241, nonAscii)

\* paragraphs of a document for streamlit_app.py
ParaPoolSt ==
    { Para(<<>>, 350, 98, 0),      \* 350 characters, ASCII ratio 0.72, no keyword
      Para(Kw3, 400, 0, 0),        \* 400 ASCII characters, three keywords
      Para(<<>>, 150, 0, 0),       \* 150 ASCII characters, no keyword
      Para(Kw3, 400, 0, 41),       \* as the second, with 41 full stops
      Para(<<>>, 300, 93, 0) }     \* 300 characters, ASCII ratio 0.69

\* paragraphs of a document for app.py
ParaPoolApp ==
    { Para(The(8) \o Kw3, 1200, 0, 0),                \* English, three keywords
      Para(The(8) \o Kw3, 999, 0, 0),                 \* one character short
      Para(The(8) \o Kw3 \o <<273, 32>>, 1000, 0, 0), \* contains d-with-stroke
      Para(The(8), 1000, 0, 0) }                      \* English, no keyword

ParaLists(pool) == UNION {[1..n -> pool] : n \in 0..MaxParas}

Camera == <<99, 97, 109, 101, 114, 97>>
Lighting == <<108, 105, 103, 104, 116, 105, 110, 103>>
Objective == <<111, 98, 106, 101, 99, 116, 105, 118, 101>>

\* app.py sidebar: min_len slider 1000..4000, min_hits slider 0..10,
\* keywords split from the text area
ConfigsApp ==
    [ min_len : {1000},
      require_english : BOOLEAN,
      strict_lang : BOOLEAN,
      keywords : {<<>>, <<Camera, Lighting>>},
      min_keyword_hits : {0, 2} ]

\* streamlit_app.py: min_len 100..5000, min_ascii_ratio 0..1,
\* min_keyword_hits 0..10, max_puncts 1..200; keywords left out (None) only
\* together with the default values of the other thresholds
ConfigsSt ==
    { c \in [ min_len : {100, 400},
              min_ascii_ratio : {50, 75},
              keywords : {None, <<>>, <<Camera, Lighting, Objective>>},
              min_keyword_hits : {0, 3},
              max_puncts : {40},
              relax_if_empty : BOOLEAN ] :
        c.keywords = None =>
            c.min_len = 400 /\ c.min_ascii_ratio = 75 /\ c.min_keyword_hits = 3 }

Init ==
    /\ variant \in {"app", "streamlit"}
    /\ LANGDETECT_AVAILABLE \in (IF variant = "app" THEN BOOLEAN ELSE {FALSE})
    /\ paragraphs \in ParaLists(IF variant = "app" THEN ParaPoolApp ELSE ParaPoolSt)
    /\ cfg \in (IF variant = "app" THEN ConfigsApp ELSE ConfigsSt)
    /\ pc = "primary"
    /\ idx = 1
    /\ prompts = <<>>
    /\ primary = <<>>
    /\ relaxed = FALSE
    /\ verdicts = <<>>
    /\ detected = <<>>
    /\ NormOff /\ KwOff /\ HeurOff

\* app.py filter_prompts: one element of the list comprehension
PrimaryStepApp ==
    /\ variant = "app"
    /\ pc = "primary"
    /\ idx <= Len(paragraphs)
    /\ \E d \in (IF DetectorCalled(paragraphs[idx], cfg) THEN DetectOutcomes ELSE {"none"}) :
        LET p == paragraphs[idx]
            r == looks_like_prompt_app(p, cfg.min_len, cfg.require_english,
                     cfg.strict_lang, cfg.keywords, cfg.min_keyword_hits, d)
        IN /\ detected' = Append(detected, d)
           /\ IF r.raised
              THEN /\ pc' = "raised"
                   /\ UNCHANGED <<idx, prompts, verdicts>>
              ELSE /\ verdicts' = Append(verdicts, r.value)
                   /\ prompts' = IF r.value THEN Collect(prompts, p) ELSE prompts
                   /\ idx' = idx + 1
                   /\ pc' = pc
    /\ UNCHANGED <<variant, LANGDETECT_AVAILABLE, paragraphs, cfg, primary, relaxed>>
    /\ UNCHANGED <<nvars, kvars, hvars>>

\* app.py filter_prompts: the comprehension is exhausted; return
ReturnApp ==
    /\ variant = "app"
    /\ pc = "primary"
    /\ idx > Len(paragraphs)
    /\ primary' = prompts
    /\ pc' = "done"
    /\ UNCHANGED <<variant, LANGDETECT_AVAILABLE, paragraphs, cfg, idx, prompts,
                   relaxed, verdicts, detected>>
    /\ UNCHANGED <<nvars, kvars, hvars>>

\* streamlit_app.py filter_prompts: one element of the first comprehension
PrimaryStepSt ==
    /\ variant = "streamlit"
    /\ pc = "primary"
    /\ idx <= Len(paragraphs)
    /\ LET p == paragraphs[idx]
           r == looks_like_prompt_st(p, cfg.min_len, cfg.min_ascii_ratio,
                    EffectiveKeywords(cfg.keywords), cfg.min_keyword_hits,
                    cfg.max_puncts)
       IN /\ verdicts' = Append(verdicts, r)
          /\ prompts' = IF r THEN Collect(prompts, p) ELSE prompts
    /\ detected' = Append(detected, "none")
    /\ idx' = idx + 1
    /\ UNCHANGED <<variant, LANGDETECT_AVAILABLE, paragraphs, cfg, pc, primary, relaxed>>
    /\ UNCHANGED <<nvars, kvars, hvars>>

\* streamlit_app.py: the first comprehension is exhausted and the fallback
\* branch is entered (prompts is rebound to the second comprehension)
EnterRelaxed ==
    /\ variant = "streamlit"
    /\ pc = "primary"
    /\ idx > Len(paragraphs)
    /\ FallbackTaken(cfg.relax_if_empty, prompts)
    /\ primary' = prompts
    /\ relaxed' = TRUE
    /\ prompts' = <<>>
    /\ idx' = 1
    /\ pc' = "relaxed"
    /\ UNCHANGED <<variant, LANGDETECT_AVAILABLE, paragraphs, cfg, verdicts, detected>>
    /\ UNCHANGED <<nvars, kvars, hvars>>

\* streamlit_app.py: one element of the second comprehension
RelaxedStep ==
    /\ variant = "streamlit"
    /\ pc = "relaxed"
    /\ idx <= Len(paragraphs)
    /\ LET p == paragraphs[idx] IN
        prompts' = IF RelaxedKeep(p, cfg.min_len, cfg.min_ascii_ratio)
                   THEN Collect(prompts, p) ELSE prompts
    /\ idx' = idx + 1
    /\ UNCHANGED <<variant, LANGDETECT_AVAILABLE, paragraphs, cfg, pc, primary,
                   relaxed, verdicts, detected>>
    /\ UNCHANGED <<nvars, kvars, hvars>>

\* streamlit_app.py: return prompts, after the first comprehension when the
\* fallback branch is skipped, or after the second one
ReturnSt ==
    /\ variant = "streamlit"
    /\ \/ /\ pc = "primary"
          /\ idx > Len(paragraphs)
          /\ ~FallbackTaken(cfg.relax_if_empty, prompts)
          /\ primary' = prompts
       \/ /\ pc = "relaxed"
          /\ idx > Len(paragraphs)
          /\ primary' = primary
    /\ pc' = "done"
    /\ UNCHANGED <<variant, LANGDETECT_AVAILABLE, paragraphs, cfg, idx, prompts,
                   relaxed, verdicts, detected>>
    /\ UNCHANGED <<nvars, kvars, hvars>>

Next ==
    \/ PrimaryStepApp
    \/ ReturnApp
    \/ PrimaryStepSt
    \/ EnterRelaxed
    \/ RelaxedStep
    \/ ReturnSt

Spec == Init /\ [][Next]_vars

(***************************************************************************)
(* Properties of filter_prompts                                            *)
(***************************************************************************)
\* a is b with some elements left out: same relative order, nothing added
IsSubseq(a, b) ==
    \E f \in [1..Len(a) -> 1..Len(b)] :
        /\ \A i, j \in 1..Len(a) : i < j => f[i] < f[j]
        /\ \A i \in 1..Len(a) : a[i] = b[f[i]]

\* the elements of ps whose flag in vs is set, in order
SelectByFlag(ps, vs) ==
    LET keep == {i \in 1..Len(ps) : vs[i]} IN
    [j \in 1..Cardinality(keep) |->
        ps[CHOOSE i \in keep : Cardinality({k \in keep : k <= i}) = j]]

\* C1: the list built and returned by filter_prompts (both variants, with or
\* without the relaxed pass) is a subsequence of the input list.
C1_OutputIsSubsequence ==
    variant \in {"app", "streamlit"} =>
        /\ IsSubseq(prompts, paragraphs)
        /\ IsSubseq(primary, paragraphs)

C1_Witness ==
    /\ pc = "done"
    /\ Len(paragraphs) = 2
    /\ paragraphs[1] # paragraphs[2]
    /\ prompts = <<paragraphs[2]>>

\* C2 (as stated): the relaxed pass is evaluated only if relax_if_empty is
\* set, the primary result is empty and the input list is non-empty; a
\* non-empty primary result is returned unchanged; with zero paragraphs the
\* result is empty and the fallback path is not taken.
C2_FallbackOnlyOnNonEmptyInput ==
    variant = "streamlit" =>
        /\ relaxed => cfg.relax_if_empty /\ primary = <<>> /\ Len(paragraphs) > 0
        /\ (pc = "done" /\ primary # <<>>) => prompts = primary
        /\ (pc = "done" /\ paragraphs = <<>>) => prompts = <<>> /\ ~relaxed

\* C2 (amended): the relaxed pass is evaluated exactly when relax_if_empty is
\* set and the primary result is empty, an empty input list included; a
\* non-empty primary result is returned unchanged; with zero paragraphs the
\* result is empty.
C2_FallbackIffPrimaryEmpty ==
    variant = "streamlit" =>
        /\ relaxed => cfg.relax_if_empty /\ primary = <<>>
        /\ pc = "done" => (relaxed <=> cfg.relax_if_empty /\ primary = <<>>)
        /\ (pc = "done" /\ primary # <<>>) => prompts = primary /\ ~relaxed
        /\ (pc = "done" /\ paragraphs = <<>>) => prompts = <<>>

C2_Witness ==
    /\ variant = "streamlit"
    /\ pc = "done"
    /\ relaxed
    /\ Len(paragraphs) = 2
    /\ Len(prompts) = 1

\* C3: the fallback configuration is strictly looser than the primary one for
\* every allowed configuration: lower minimum length, lower ASCII threshold,
\* and every paragraph passing the primary length and ASCII checks passes the
\* relaxed ones.
C3_RelaxedStrictlyLooser ==
    (variant = "streamlit" /\ relaxed) =>
        /\ RelaxedMinLen(cfg.min_len) < cfg.min_len
        /\ RelaxedMinAscii(cfg.min_ascii_ratio) < cfg.min_ascii_ratio
        /\ \A i \in 1..Len(paragraphs) :
            (/\ Len(paragraphs[i]) >= cfg.min_len
             /\ AsciiCount(paragraphs[i]) * 100 >= cfg.min_ascii_ratio * Len(paragraphs[i]))
                => RelaxedKeep(paragraphs[i], cfg.min_len, cfg.min_ascii_ratio)

\* C4: when no paragraph passes the primary pass and fallback is enabled,
\* every paragraph of length >= max(300, 0.75*min_len) and ASCII ratio
\* >= max(0.7, min_ascii_ratio - 0.1) is in the output, whatever its
\* keywords and punctuation.
C4_RelaxedIncludes ==
    (variant = "streamlit" /\ pc = "done" /\ cfg.relax_if_empty /\ primary = <<>>) =>
        \A i \in 1..Len(paragraphs) :
            LET p == paragraphs[i] IN
            (/\ Len(p) >= 300
             /\ 4 * Len(p) >= 3 * cfg.min_len
             /\ AsciiCount(p) * 100 >= Max(70, cfg.min_ascii_ratio - 10) * Len(p))
                => \E j \in 1..Len(prompts) : prompts[j] = p

C4_Witness ==
    /\ variant = "streamlit"
    /\ pc = "done"
    /\ relaxed
    /\ cfg.min_len = 400
    /\ cfg.min_keyword_hits = 3
    /\ cfg.keywords # <<>>
    /\ \E i \in 1..Len(paragraphs) :
        /\ Len(paragraphs[i]) = 350
        /\ AsciiCount(paragraphs[i]) = 252
        /\ \E j \in 1..Len(prompts) : prompts[j] = paragraphs[i]

\* C5: looks_like_prompt returns false for every paragraph shorter than
\* min_len, whatever the other arguments, in both variants.
C5_ShortIsRejected ==
    variant \in {"app", "streamlit"} =>
        \A i \in 1..Len(verdicts) :
            Len(paragraphs[i]) < cfg.min_len => ~verdicts[i]

C5_Witness ==
    /\ variant = "app"
    /\ ~cfg.require_english
    /\ cfg.min_keyword_hits = 0
    /\ \E i \in 1..Len(verdicts) :
        Len(paragraphs[i]) = cfg.min_len - 1 /\ ~verdicts[i]

\* the checks of looks_like_prompt other than the keyword check, on the
\* paragraph at position i
OtherChecks(i) ==
    LET p == paragraphs[i] IN
    IF variant = "app"
    THEN /\ Len(p) >= cfg.min_len
         /\ cfg.require_english =>
                IF cfg.strict_lang /\ LANGDETECT_AVAILABLE
                THEN detected[i] = "en"
                ELSE is_english_heuristic(p)
    ELSE /\ Len(p) >= cfg.min_len
         /\ AsciiCount(p) * 100 >= cfg.min_ascii_ratio * Len(p)
         /\ PunctCount(p) <= cfg.max_puncts

\* C6: with an empty keyword list or a zero threshold the keyword check is
\* disabled, in both variants: looks_like_prompt returns what the remaining
\* checks give.
C6_KeywordCheckDisabled ==
    variant \in {"app", "streamlit"} =>
        \A i \in 1..Len(verdicts) :
            (cfg.keywords = <<>> \/ cfg.min_keyword_hits = 0)
                => (verdicts[i] <=> OtherChecks(i))

\* C8: a detector exception makes the paragraph negative and never aborts
\* the batch; every paragraph is classified and those that pass are
\* returned; strict mode with the detector available follows the detector,
\* otherwise the heuristic decides.
C8_DetectorFailureIsNegative ==
    variant = "app" =>
        /\ pc # "raised"
        /\ \A i \in 1..Len(verdicts) :
            /\ detected[i] = "raise" => ~verdicts[i]
            /\ (cfg.require_english /\ verdicts[i]) =>
                IF cfg.strict_lang /\ LANGDETECT_AVAILABLE
                THEN detected[i] = "en"
                ELSE detected[i] = "none" /\ is_english_heuristic(paragraphs[i])
        /\ pc = "done" =>
            /\ Len(verdicts) = Len(paragraphs)
            /\ prompts = SelectByFlag(paragraphs, verdicts)

C8_Witness ==
    /\ variant = "app"
    /\ pc = "done"
    /\ Len(paragraphs) = 2
    /\ detected = <<"raise", "en">>
    /\ prompts = <<paragraphs[2]>>

====
